---- MODULE Spec2Model ----
(***************************************************************************)
(* Model of tools/build_data.py: the precomputed radial layout of the      *)
(* Cybersecurity Atlas taxonomy.  main() reads the master taxonomy, writes *)
(* one branch-<slug>.json per top-level child and then root.json.          *)
(*                                                                         *)
(* Names are sequences of one-character strings, so that slugify and       *)
(* path_id are computed character by character.  Angles are exact          *)
(* rationals in units of pi (2*math.pi is 2/1); radii are exact rationals. *)
(* A layout node keeps the polar arguments it was placed with (radius,     *)
(* start_angle, end_angle) in place of the rounded x/y computed from them; *)
(* the display label (multiline_label) is not part of the model.           *)
(* pos / tpos are history fields: the index path, from the master root, of *)
(* the taxonomy node a layout node or an edge's target was emitted for.    *)
(***************************************************************************)
EXTENDS Integers, Sequences, FiniteSets, TLC

\* Bounds of the model.
MaxNodes == 5
MaxFan == 19
MaxChain == 4

CHILDREN_PER_RING == 6

(***************************************************************************)
(* Exact rational arithmetic.                                              *)
(***************************************************************************)
Abs(x) == IF x < 0 THEN -x ELSE x

RECURSIVE GCD(_, _)
GCD(a, b) == IF b = 0 THEN a ELSE GCD(b, a % b)

R(n, d) ==
    LET g == GCD(Abs(n), Abs(d))
        s == IF d < 0 THEN -1 ELSE 1
    IN  [n |-> (s * n) \div g, d |-> (s * d) \div g]

RAdd(x, y) == R(x.n * y.d + y.n * x.d, x.d * y.d)
RSub(x, y) == R(x.n * y.d - y.n * x.d, x.d * y.d)
RMul(x, y) == R(x.n * y.n, x.d * y.d)
RDiv(x, y) == R(x.n * y.d, x.d * y.n)
RInt(k) == R(k, 1)
RLe(x, y) == x.n * y.d <= y.n * x.d
RMax(x, y) == IF RLe(x, y) THEN y ELSE x
RMin(x, y) == IF RLe(x, y) THEN x ELSE y

Zero == RInt(0)
TwoPi == RInt(2)

(***************************************************************************)
(* Text: slugify and path_id.                                              *)
(***************************************************************************)
UpperChars == <<"A", "B", "C", "D", "E", "F", "G", "H", "I", "J", "K", "L", "M",
                "N", "O", "P", "Q", "R", "S", "T", "U", "V", "W", "X", "Y", "Z">>
LowerChars == <<"a", "b", "c", "d", "e", "f", "g", "h", "i", "j", "k", "l", "m",
                "n", "o", "p", "q", "r", "s", "t", "u", "v", "w", "x", "y", "z">>
DigitChars == {"0", "1", "2", "3", "4", "5", "6", "7", "8", "9"}

\* str.lower() on one character.
Lower(c) ==
    IF \E i \in 1..Len(UpperChars) : UpperChars[i] = c
    THEN LowerChars[CHOOSE i \in 1..Len(UpperChars) : UpperChars[i] = c]
    ELSE c

\* The class [a-z0-9].
IsSlugChar(c) == c \in DigitChars \/ \E i \in 1..Len(LowerChars) : LowerChars[i] = c

RECURSIVE DropWhile(_, _)
DropWhile(s, c) ==
    IF s # <<>> /\ Head(s) = c THEN DropWhile(Tail(s), c) ELSE s

RECURSIVE DropNonSlug(_)
DropNonSlug(s) ==
    IF s # <<>> /\ ~IsSlugChar(Head(s)) THEN DropNonSlug(Tail(s)) ELSE s

\* re.sub(r"[^a-z0-9]+", "-", s)
RECURSIVE SubNonSlugRuns(_)
SubNonSlugRuns(s) ==
    IF s = <<>> THEN <<>>
    ELSE IF IsSlugChar(Head(s)) THEN <<Head(s)>> \o SubNonSlugRuns(Tail(s))
    ELSE <<"-">> \o SubNonSlugRuns(DropNonSlug(Tail(s)))

\* re.sub(r"-+", "-", s)
RECURSIVE CollapseHyphens(_)
CollapseHyphens(s) ==
    IF s = <<>> THEN <<>>
    ELSE IF Head(s) = "-" THEN <<"-">> \o CollapseHyphens(DropWhile(Tail(s), "-"))
    ELSE <<Head(s)>> \o CollapseHyphens(Tail(s))

RECURSIVE Reverse(_)
Reverse(s) == IF s = <<>> THEN <<>> ELSE Append(Reverse(Tail(s)), Head(s))

\* s.strip("-")
StripHyphens(s) == Reverse(DropWhile(Reverse(DropWhile(s, "-")), "-"))

LowerText(s) == [i \in 1..Len(s) |-> Lower(s[i])]

slugify(text) ==
    LET slug == StripHyphens(CollapseHyphens(SubNonSlugRuns(LowerText(text))))
    IN  IF slug = <<>> THEN <<"n", "o", "d", "e">> ELSE slug

\* "-".join(slugify(segment) for segment in path)
RECURSIVE path_id(_)
path_id(path) ==
    IF path = <<>> THEN <<>>
    ELSE IF Len(path) = 1 THEN slugify(path[1])
    ELSE slugify(Head(path)) \o <<"-">> \o path_id(Tail(path))

(***************************************************************************)
(* Taxonomy nodes: records with a children sequence and, unless the        *)
(* document is malformed, a name.                                          *)
(***************************************************************************)
HasName(node) == "name" \in DOMAIN node

\* node.get("children") or []
ChildrenOf(node) == IF "children" \in DOMAIN node THEN node.children ELSE <<>>

RECURSIVE SumSeq(_)
SumSeq(s) == IF s = <<>> THEN 0 ELSE Head(s) + SumSeq(Tail(s))

RECURSIVE leaf_count(_)
leaf_count(node) ==
    LET children == ChildrenOf(node)
    IN  IF children = <<>> THEN 1
        ELSE SumSeq([i \in 1..Len(children) |-> leaf_count(children[i])])

\* Whether looking up node["name"] succeeds at every node of the subtree.
RECURSIVE AllNamed(_)
AllNamed(node) ==
    /\ HasName(node)
    /\ \A i \in 1..Len(ChildrenOf(node)) : AllNamed(ChildrenOf(node)[i])

(***************************************************************************)
(* Ring allocation.                                                        *)
(***************************************************************************)
link_distance(depth) ==
    IF depth <= 0 THEN RInt(0)
    ELSE IF depth = 1 THEN RInt(100)
    ELSE IF depth = 2 THEN RInt(130)
    ELSE RAdd(RInt(130), RMul(RInt(depth - 2), RInt(20)))

ring_multiplier(depth, rings) ==
    LET base == IF depth <= 1 THEN R(13, 10)
                ELSE IF depth <= 3 THEN R(15, 10)
                ELSE R(17, 10)
        extra == RMul(RInt(IF rings - 1 > 0 THEN rings - 1 ELSE 0), R(8, 100))
    IN  RMin(RAdd(base, extra), RAdd(base, R(2, 10)))

\* math.ceil(n / CHILDREN_PER_RING) for n >= 0
CeilDiv(n, k) == (n + k - 1) \div k

\* Mutant: floor division in place of math.ceil.
ring_count_floor(n) ==
    IF n \div CHILDREN_PER_RING > 1 THEN n \div CHILDREN_PER_RING ELSE 1

\* rings = max(1, math.ceil(len(children) / CHILDREN_PER_RING))
ring_count(n) ==
    IF CeilDiv(n, CHILDREN_PER_RING) > 1 THEN CeilDiv(n, CHILDREN_PER_RING) ELSE 1

\* base_distance, max_multiplier, extra_distance and ring_spacing for children
\* placed at depth child_depth on `rings` rings.
ring_spacing(child_depth, rings) ==
    LET base_distance == link_distance(child_depth)
        max_multiplier == ring_multiplier(child_depth, rings)
        extra_distance == RMul(base_distance, RMax(Zero, RSub(max_multiplier, RInt(1))))
    IN  IF rings > 1 THEN RDiv(extra_distance, RInt(rings - 1)) ELSE Zero

\* index is 0-based, as in enumerate(children).
ring_index(index) == index \div CHILDREN_PER_RING

child_radius(radius, child_depth, n, index) ==
    RAdd(RAdd(radius, link_distance(child_depth)),
         RMul(RInt(ring_index(index)), ring_spacing(child_depth, ring_count(n))))

\* Mutant: the weighted share divided by the number of children.
child_span_by_len(span, leaves, total_leaves, n) ==
    RDiv(RMul(span, RInt(leaves)), RInt(n))

\* Mutant: the equal split taken whatever the leaf counts.
child_span_equal(span, leaves, total_leaves, n) ==
    RDiv(span, RInt(n))

\* span * leaves / total_leaves if total_leaves else span / len(children)
child_span(span, leaves, total_leaves, n) ==
    IF total_leaves # 0
    THEN RDiv(RMul(span, RInt(leaves)), RInt(total_leaves))
    ELSE RDiv(span, RInt(n))

\* Mutant: the depth passed down unchanged.
ChildDepthSame(depth) == depth

ChildDepth(depth) == depth + 1

Counts(children) == [i \in 1..Len(children) |-> leaf_count(children[i])]

(***************************************************************************)
(* The radial layout engine.  assign_positions returns the nodes and edges *)
(* the call appends, in the order it appends them.  It is applied only to  *)
(* subtrees in which every node has a name (otherwise the call raises      *)
(* KeyError and its lists are discarded with the frame of build_branch).   *)
(***************************************************************************)
RECURSIVE assign_positions(_, _, _, _, _, _, _)
RECURSIVE LayoutChildren(_, _, _, _, _, _, _, _)

\* The body of `for index, child in enumerate(children)` from `index` on.
LayoutChildren(node, path, depth, radius, span, cursor, index, pos) ==
    LET children == ChildrenOf(node)
        counts == Counts(children)
        total_leaves == SumSeq(counts)
    IN  IF index >= Len(children) THEN [nodes |-> <<>>, edges |-> <<>>]
        ELSE LET child == children[index + 1]
                 cspan == child_span(span, counts[index + 1], total_leaves, Len(children))
                 child_start == cursor
                 child_end == RAdd(cursor, cspan)
                 sub == assign_positions(child, Append(path, node.name), ChildDepth(depth),
                            child_radius(radius, depth + 1, Len(children), index),
                            child_start, child_end, Append(pos, index + 1))
                 rest == LayoutChildren(node, path, depth, radius, span,
                            RAdd(cursor, cspan), index + 1, pos)
             IN  [nodes |-> sub.nodes \o rest.nodes, edges |-> sub.edges \o rest.edges]

assign_positions(node, path, depth, radius, start_angle, end_angle, pos) ==
    LET node_id == path_id(Append(path, node.name))
        children == ChildrenOf(node)
        self == [id |-> node_id, depth |-> depth, hasChildren |-> children # <<>>,
                 radius |-> radius, start_angle |-> start_angle,
                 end_angle |-> end_angle, pos |-> pos]
        edge == IF path # <<>>
                THEN <<[source |-> path_id(path), target |-> node_id, tpos |-> pos]>>
                ELSE <<>>
        below == IF children # <<>>
                 THEN LayoutChildren(node, path, depth, radius,
                          RSub(end_angle, start_angle), start_angle, 0, pos)
                 ELSE [nodes |-> <<>>, edges |-> <<>>]
    IN  [nodes |-> <<self>> \o below.nodes, edges |-> edge \o below.edges]

\* Mutant: math.pi in place of 2 * math.pi.
build_branch_half_circle(node, parent_path, pos) ==
    LET laid == assign_positions(node, parent_path, 0, Zero, Zero, RInt(1), pos)
    IN  [rootId |-> path_id(Append(parent_path, node.name)),
         nodes |-> laid.nodes, edges |-> laid.edges]

build_branch(node, parent_path, pos) ==
    LET laid == assign_positions(node, parent_path, 0, Zero, Zero, TwoPi, pos)
    IN  [rootId |-> path_id(Append(parent_path, node.name)),
         nodes |-> laid.nodes, edges |-> laid.edges]

(***************************************************************************)
(* File names.                                                             *)
(***************************************************************************)
BranchPrefix == <<"b", "r", "a", "n", "c", "h", "-">>
JsonSuffix == <<".", "j", "s", "o", "n">>
DataPrefix == <<"d", "a", "t", "a", "/">>
RootFileName == <<"r", "o", "o", "t">> \o JsonSuffix

\* f"branch-{branch_slug}.json"
BranchFileName(branch_slug) == BranchPrefix \o branch_slug \o JsonSuffix

\* Mutant: the extension left off the url.
ChildUrlNoSuffix(branch_slug) == DataPrefix \o BranchPrefix \o branch_slug

\* f"data/branch-{branch_slug}.json"
ChildUrl(branch_slug) == DataPrefix \o BranchPrefix \o branch_slug \o JsonSuffix

(***************************************************************************)
(* Taxonomy documents the run is checked on.                               *)
(***************************************************************************)
ExhNames == {<<"a">>, <<"B", " ", "c">>}

\* Every document of exactly n nodes (ForestN: every child list of m nodes) whose
\* nodes are named from `names`; with `missing`, a node may lack the name field.
RECURSIVE TreesN(_, _, _)
RECURSIVE ForestN(_, _, _)
TreesN(n, names, missing) ==
    {[name |-> nm, children |-> f] : nm \in names, f \in ForestN(n - 1, names, missing)}
        \cup (IF missing THEN {[children |-> f] : f \in ForestN(n - 1, names, missing)}
              ELSE {})

ForestN(m, names, missing) ==
    IF m = 0 THEN {<<>>}
    ELSE UNION {{<<t>> \o f : t \in TreesN(k, names, missing),
                              f \in ForestN(m - k, names, missing)} : k \in 1..m}

SmallTrees ==
    UNION {TreesN(n, ExhNames, FALSE) \cup TreesN(n, {<<"a">>}, TRUE) : n \in 1..MaxNodes}

DigitSeq == <<"0", "1", "2", "3", "4", "5", "6", "7", "8", "9">>
LeafName(i) == <<"x", DigitSeq[((i \div 10) % 10) + 1], DigitSeq[(i % 10) + 1]>>
Leaf(nm) == [name |-> nm, children |-> <<>>]
Fan(nm, n) == [name |-> nm, children |-> [i \in 1..n |-> Leaf(LeafName(i))]]

\* k nested single-child levels above a node with n leaf children.
RECURSIVE Chain(_, _)
Chain(k, n) ==
    IF k = 0 THEN Fan(<<"f">>, n)
    ELSE [name |-> <<"c", DigitSeq[(k % 10) + 1]>>, children |-> <<Chain(k - 1, n)>>]

WideTrees == {Chain(k, n) : k \in 0..MaxChain, n \in 1..MaxFan}

Named(nm, kids) == [name |-> nm, children |-> kids]

SpecialTrees ==
    { Named(<<"R", "o", "o", "t">>,
          <<Named(<<"A">>, <<[name |-> <<"A", "1">>], [name |-> <<"A", "2">>]>>),
            [name |-> <<"B">>]>>),
      Named(<<"R">>,
          <<Named(<<"X">>, <<Leaf(<<"a", "-", "b">>), Named(<<"a">>, <<Leaf(<<"b">>)>>)>>)>>),
      Named(<<"R">>, <<Leaf(<<"?", "?", "?">>), Leaf(<<"!", "!">>), Leaf(<<"A", " ", "b">>),
                       Leaf(<<"a", "-", "-", "B">>)>>),
      Named(<<"R">>,
          <<Named(<<"A">>, <<Named(<<"A", "1">>,
                                   <<Named(<<"p">>, <<Leaf(<<"u">>), Leaf(<<"v">>)>>),
                                     Leaf(<<"q">>), Leaf(<<"r">>)>>),
                             Leaf(<<"A", "2">>)>>),
            Named(<<"B">>, <<Leaf(<<"B", "1">>), Fan(<<"B", "2">>, 7)>>)>>),
      Named(<<"W">>,
          <<Named(<<"A">>, <<Named(<<"p">>, <<Leaf(<<"u">>), Leaf(<<"v">>)>>), Leaf(<<"q">>)>>)>>
              \o Fan(<<"f">>, 7).children),
      Named(<<"R">>,
          <<Leaf(<<"A">>), Named(<<"B">>, <<Leaf(<<"B", "1">>), [children |-> <<>>]>>),
            Leaf(<<"C">>)>>) }

Trees == SmallTrees \cup WideTrees \cup SpecialTrees

(***************************************************************************)
(* main().                                                                 *)
(***************************************************************************)
VARIABLES master, pc, index, cursor, root_nodes, root_edges, written

vars == <<master, pc, index, cursor, root_nodes, root_edges, written>>

children == ChildrenOf(master)
counts == Counts(children)
total_leaves == SumSeq(counts)

Init ==
    /\ master \in Trees
    /\ pc = "start"
    /\ index = 0
    /\ cursor = Zero
    /\ root_nodes = <<>>
    /\ root_edges = <<>>
    /\ written = <<>>

\* Lines 142-154: the document is parsed and the loop's locals are set.
Load ==
    /\ pc = "start"
    /\ pc' = "loop"
    /\ index' = 0
    /\ cursor' = Zero
    /\ root_nodes' = <<>>
    /\ root_edges' = <<>>
    /\ UNCHANGED <<master, written>>

\* Mutant: the loop stops one child early.
LoopDoneEarly == index >= Len(children) - 1

\* The for loop of line 155 has no child left.
LoopDone == index >= Len(children)

\* child["name"], master["name"] or a node["name"] below the child raises KeyError
\* before write_text is called.
BranchRaises ==
    ~(HasName(children[index + 1]) /\ HasName(master) /\ AllNamed(children[index + 1]))

IterateRaise ==
    /\ pc = "loop"
    /\ ~LoopDone
    /\ BranchRaises
    /\ pc' = "failed"
    /\ UNCHANGED <<master, index, cursor, root_nodes, root_edges, written>>

\* Lines 156-168: the branch payload is built and written.
WriteBranch ==
    /\ pc = "loop"
    /\ ~LoopDone
    /\ ~BranchRaises
    /\ LET child == children[index + 1]
           branch_slug == slugify(child.name)
       IN  written' = Append(written,
               [file |-> BranchFileName(branch_slug),
                payload |-> build_branch(child, <<master.name>>, <<index + 1>>)])
    /\ pc' = "wrote"
    /\ UNCHANGED <<master, index, cursor, root_nodes, root_edges>>

\* Lines 169-181: the branch node is added to the root payload's lists.
AppendRootNode ==
    /\ pc = "wrote"
    /\ LET child == children[index + 1]
           cspan == child_span(TwoPi, counts[index + 1], total_leaves, Len(children))
           child_start == cursor
           child_end == RAdd(cursor, cspan)
           child_id == path_id(<<master.name, child.name>>)
       IN  /\ root_nodes' = Append(root_nodes,
                  [id |-> child_id, depth |-> 1,
                   hasChildren |-> ChildrenOf(child) # <<>>,
                   radius |-> child_radius(Zero, 1, Len(children), index),
                   start_angle |-> child_start, end_angle |-> child_end,
                   childUrl |-> ChildUrl(slugify(child.name)),
                   pos |-> <<index + 1>>])
           /\ root_edges' = Append(root_edges,
                  [source |-> path_id(<<master.name>>), target |-> child_id,
                   tpos |-> <<index + 1>>])
           /\ cursor' = RAdd(cursor, cspan)
    /\ index' = index + 1
    /\ pc' = "loop"
    /\ UNCHANGED <<master, written>>

\* Lines 183-195.
WriteRoot ==
    /\ pc = "loop"
    /\ LoopDone
    /\ HasName(master)
    /\ written' = Append(written,
           [file |-> RootFileName,
            payload |-> [root |-> [id |-> path_id(<<master.name>>), depth |-> 0,
                                   hasChildren |-> TRUE, radius |-> Zero, pos |-> <<>>],
                         children |-> root_nodes,
                         edges |-> root_edges]])
    /\ pc' = "done"
    /\ UNCHANGED <<master, index, cursor, root_nodes, root_edges>>

\* master["name"] raises KeyError while the root payload is built (line 185).
WriteRootRaise ==
    /\ pc = "loop"
    /\ LoopDone
    /\ ~HasName(master)
    /\ pc' = "failed"
    /\ UNCHANGED <<master, index, cursor, root_nodes, root_edges, written>>

Next ==
    \/ Load
    \/ IterateRaise
    \/ WriteBranch
    \/ AppendRootNode
    \/ WriteRoot
    \/ WriteRootRaise

Spec == Init /\ [][Next]_vars

(***************************************************************************)
(* Vocabulary of the properties.                                           *)
(***************************************************************************)
IsRootWrite(w) == w.file = RootFileName

\* The layout nodes of a written payload, in the order the payload lists them.
PayloadNodes(w) ==
    IF IsRootWrite(w) THEN <<w.payload.root>> \o w.payload.children ELSE w.payload.nodes

BranchWrites == {k \in 1..Len(written) : ~IsRootWrite(written[k])}

\* The writes whose file no later write replaces: what is on disk.
Persisted == {k \in 1..Len(written) : \A j \in (k + 1)..Len(written) :
                                          written[j].file # written[k].file}

RECURSIVE NodeAt(_, _)
NodeAt(node, pos) ==
    IF pos = <<>> THEN node ELSE NodeAt(ChildrenOf(node)[Head(pos)], Tail(pos))

RECURSIVE Positions(_)
Positions(node) ==
    {<<>>} \cup UNION {{<<i>> \o q : q \in Positions(ChildrenOf(node)[i])} :
                          i \in 1..Len(ChildrenOf(node))}

Front(s) == SubSeq(s, 1, Len(s) - 1)

IsProperPrefix(p, q) == Len(p) < Len(q) /\ SubSeq(q, 1, Len(p)) = p

\* How many layout nodes of the writes in K were emitted for the taxonomy node at pos.
Occurrences(K, pos) ==
    Cardinality(UNION {{<<k, i>> : i \in {j \in 1..Len(PayloadNodes(written[k])) :
                                             PayloadNodes(written[k])[j].pos = pos}} :
                          k \in K})

SpanOf(rec) == RSub(rec.end_angle, rec.start_angle)

(***************************************************************************)
(* C1: within each emitted payload (the root payload's root and children,  *)
(* each branch payload's nodes) all layout node ids are pairwise distinct. *)
(***************************************************************************)
C1_IdsDistinct ==
    \A k \in 1..Len(written) :
        LET ns == PayloadNodes(written[k])
        IN  \A i, j \in 1..Len(ns) : i # j => ns[i].id # ns[j].id

(***************************************************************************)
(* C2 as stated: after a complete run every top-level child owns exactly   *)
(* one persisted branch payload, and the root payload's root and children  *)
(* with the nodes of all persisted branch payloads contain every taxonomy  *)
(* node exactly once.                                                      *)
(***************************************************************************)
C2_CoveredExactlyOnce ==
    pc = "done" =>
        /\ \A i \in 1..Len(children) :
               Cardinality({k \in Persisted \cap BranchWrites :
                               written[k].payload.nodes[1].pos = <<i>>}) = 1
        /\ \A q \in Positions(master) : Occurrences(Persisted, q) = 1

(***************************************************************************)
(* C2 amended: after a complete run one branch payload has been written    *)
(* for each top-level child, in source order, to branch-<slug>.json, then  *)
(* root.json; the root payload and the branch payloads written contain the *)
(* taxonomy root exactly once, every top-level child exactly twice (in the *)
(* root payload's children and as the first node of its own branch         *)
(* payload) and every deeper node exactly once.                            *)
(***************************************************************************)
C2_CoveredWithBranchRootsTwice ==
    pc = "done" =>
        /\ Len(written) = Len(children) + 1
        /\ IsRootWrite(written[Len(written)])
        /\ \A i \in 1..Len(children) :
               /\ i <= Len(written)
               /\ written[i].file = BranchFileName(slugify(children[i].name))
               /\ ~IsRootWrite(written[i])
               /\ written[i].payload.nodes[1].pos = <<i>>
               /\ written[i].payload.rootId = written[Len(written)].payload.children[i].id
        /\ \A q \in Positions(master) :
               Occurrences(1..Len(written), q) = IF Len(q) = 1 THEN 2 ELSE 1

C2_Witness ==
    /\ pc = "done"
    /\ Len(children) >= 2
    /\ \E i \in 1..Len(children) : ChildrenOf(children[i]) # <<>>
    /\ \E i, j \in 1..Len(children) :
           i # j /\ slugify(children[i].name) = slugify(children[j].name)

(***************************************************************************)
(* C3: if any node of the taxonomy lacks the name field, the run aborts    *)
(* and has written no branch-<slug>.json and no root.json.                 *)
(***************************************************************************)
C3_NoPartialOutput ==
    (~AllNamed(master) /\ pc \in {"done", "failed"}) =>
        (pc = "failed" /\ written = <<>>)

(***************************************************************************)
(* C4: for every node with children laid out by assign_positions, the      *)
(* children's spans are contiguous in source order, the first begins at    *)
(* the parent's start_angle, the last ends at its end_angle, and each lies *)
(* within the parent's span.                                               *)
(***************************************************************************)
C4_ChildrenPartitionSpan ==
    \A k \in BranchWrites :
        LET ns == written[k].payload.nodes
        IN  \A ip \in 1..Len(ns) :
                LET p == ns[ip]
                    n == Len(ChildrenOf(NodeAt(master, p.pos)))
                IN  \A j \in 1..n :
                        \E ic \in (ip + 1)..Len(ns) :
                            LET c == ns[ic]
                            IN  /\ c.pos = Append(p.pos, j)
                                /\ j = 1 => c.start_angle = p.start_angle
                                /\ j = n => c.end_angle = p.end_angle
                                /\ j < n => \E id \in (ic + 1)..Len(ns) :
                                                /\ ns[id].pos = Append(p.pos, j + 1)
                                                /\ ns[id].start_angle = c.end_angle
                                /\ RLe(p.start_angle, c.start_angle)
                                /\ RLe(c.start_angle, c.end_angle)
                                /\ RLe(c.end_angle, p.end_angle)

C4_Witness ==
    \E k \in BranchWrites :
        LET ns == written[k].payload.nodes
        IN  \E ip, ia, ib \in 1..Len(ns) :
                /\ ns[ip].depth >= 1
                /\ ns[ia].pos = Append(ns[ip].pos, 1)
                /\ ns[ib].pos = Append(ns[ip].pos, 2)
                /\ SpanOf(ns[ia]) # SpanOf(ns[ib])
                /\ ns[ib].start_angle = ns[ia].end_angle

(***************************************************************************)
(* C5: for any two siblings a and b, under any laid-out parent and among   *)
(* the top-level branches placed by main, span(a) * leaf_count(b) =        *)
(* span(b) * leaf_count(a), whatever rings they are on.                    *)
(***************************************************************************)
Proportional(a, b) ==
    RMul(SpanOf(a), RInt(leaf_count(NodeAt(master, b.pos))))
        = RMul(SpanOf(b), RInt(leaf_count(NodeAt(master, a.pos))))

SiblingsProportional(ns) ==
    \A i, j \in 1..Len(ns) :
        (/\ ns[i].pos # <<>>
         /\ ns[j].pos # <<>>
         /\ Len(ns[i].pos) = Len(ns[j].pos)
         /\ Front(ns[i].pos) = Front(ns[j].pos)) => Proportional(ns[i], ns[j])

C5_SpanProportionalToLeaves ==
    /\ SiblingsProportional(root_nodes)
    /\ \A k \in 1..Len(written) : SiblingsProportional(PayloadNodes(written[k]))

C5_Witness ==
    /\ \E i, j \in 1..Len(root_nodes) :
           /\ SpanOf(root_nodes[i]) # SpanOf(root_nodes[j])
           /\ root_nodes[i].radius # root_nodes[j].radius
    /\ \E k \in BranchWrites :
           LET ns == written[k].payload.nodes
           IN  \E i, j \in 1..Len(ns) :
                   /\ Len(ns[i].pos) >= 2
                   /\ Len(ns[i].pos) = Len(ns[j].pos)
                   /\ Front(ns[i].pos) = Front(ns[j].pos)
                   /\ SpanOf(ns[i]) # SpanOf(ns[j])

(***************************************************************************)
(* C6: in every payload every edge's source is the id of an ancestor that  *)
(* appears earlier in the payload's nodes, the payload's own root is the   *)
(* target of no edge, and a branch payload of k nodes has k-1 edges.       *)
(***************************************************************************)
C6_EdgesInsidePayload ==
    \A k \in 1..Len(written) :
        LET ns == PayloadNodes(written[k])
            es == written[k].payload.edges
        IN  /\ \A e \in 1..Len(es) :
                   /\ \E i, j \in 1..Len(ns) :
                          /\ i < j
                          /\ ns[i].id = es[e].source
                          /\ IsProperPrefix(ns[i].pos, es[e].tpos)
                          /\ ns[j].pos = es[e].tpos
                          /\ ns[j].id = es[e].target
                   /\ es[e].tpos # ns[1].pos
            /\ ~IsRootWrite(written[k]) => Len(es) = Len(ns) - 1

C8_BranchLaidOutInItsShare ==
    \A i \in 1..Len(root_nodes) :
        LET b == written[i].payload.nodes[1]
        IN  /\ b.depth = 0
            /\ b.radius = Zero
            /\ b.start_angle = root_nodes[i].start_angle
            /\ b.end_angle = root_nodes[i].end_angle

(***************************************************************************)
(* C8 amended: each branch is laid out with depth 0, radius 0 and the full *)
(* circle [0, 2*pi] as its span, whatever its share of the master circle;  *)
(* the partition of [0, 2*pi] in proportion to leaf count is used only by  *)
(* the root payload, whose i-th child spans leaf_count(i)/total of it,     *)
(* starting where the previous child ends.                                 *)
(***************************************************************************)
C8_BranchLaidOutOnFullCircle ==
    /\ \A k \in BranchWrites :
           LET b == written[k].payload.nodes[1]
           IN  /\ b.depth = 0
               /\ b.radius = [n |-> 0, d |-> 1]
               /\ b.start_angle = [n |-> 0, d |-> 1]
               /\ b.end_angle = [n |-> 2, d |-> 1]
    /\ \A i \in 1..Len(root_nodes) :
           /\ root_nodes[i].start_angle =
                  IF i = 1 THEN [n |-> 0, d |-> 1] ELSE root_nodes[i - 1].end_angle
           /\ SpanOf(root_nodes[i]) =
                  R(2 * leaf_count(children[i]), SumSeq(Counts(children)))

C8_Witness ==
    /\ Len(root_nodes) >= 2
    /\ SpanOf(root_nodes[1]) # SpanOf(root_nodes[2])
    /\ SpanOf(written[2].payload.nodes[1]) # SpanOf(root_nodes[2])

(***************************************************************************)
(* C9: a parent at depth d and radius r with n >= 1 children uses          *)
(* ringCount = ceil(n/6) rings; child i (0-based) is on ring i div 6, so   *)
(* every ring holds at most 6 children and the rings used are exactly      *)
(* 0..ringCount-1; the child's radius is r + baseStep(d+1) + (i div 6) *   *)
(* ringSpacing with ringSpacing = baseStep(d+1) * (multiplier - 1) /       *)
(* (ringCount - 1) for ringCount > 1 and 0 otherwise, and multiplier =     *)
(* base + min(0.08 * (ringCount - 1), 0.2).                                *)
(***************************************************************************)
StatedBaseStep(d) == IF d = 1 THEN 100 ELSE IF d = 2 THEN 130 ELSE 130 + 20 * (d - 2)

\* The multiplier in hundredths.
StatedMultiplier(d, ringCount) ==
    (IF d <= 1 THEN 130 ELSE IF d <= 3 THEN 150 ELSE 170)
        + (IF 8 * (ringCount - 1) < 20 THEN 8 * (ringCount - 1) ELSE 20)

StatedRadius(r, d, n, i) ==
    LET ringCount == (n + 5) \div 6
        spacing == IF ringCount > 1
                   THEN R(StatedBaseStep(d) * (StatedMultiplier(d, ringCount) - 100),
                          100 * (ringCount - 1))
                   ELSE [n |-> 0, d |-> 1]
    IN  RAdd(RAdd(r, R(StatedBaseStep(d), 1)), RMul(R(i \div 6, 1), spacing))

RingsAsStated(n) ==
    LET ringCount == (n + 5) \div 6
    IN  /\ ring_count(n) = ringCount
        /\ {ring_index(i) : i \in 0..(n - 1)} = 0..(ringCount - 1)
        /\ \A r \in 0..(ringCount - 1) :
               Cardinality({i \in 0..(n - 1) : ring_index(i) = r}) <= 6

C9_RingPlacement ==
    \A k \in 1..Len(written) :
        LET ns == PayloadNodes(written[k])
        IN  \A ip \in 1..Len(ns) :
                LET p == ns[ip]
                    n == Len(ChildrenOf(NodeAt(master, p.pos)))
                    laid == {ic \in 1..Len(ns) : /\ ns[ic].pos # <<>>
                                                 /\ Front(ns[ic].pos) = p.pos}
                IN  /\ laid # {} => RingsAsStated(n)
                    /\ \A ic \in laid :
                           ns[ic].radius =
                               StatedRadius(p.radius, p.depth + 1, n,
                                            ns[ic].pos[Len(ns[ic].pos)] - 1)

C9_Witness ==
    \E k \in BranchWrites :
        LET ns == written[k].payload.nodes
        IN  \E ip, ic \in 1..Len(ns) :
                /\ Len(ChildrenOf(NodeAt(master, ns[ip].pos))) = 13
                /\ ns[ip].radius # Zero
                /\ ns[ic].pos = Append(ns[ip].pos, 13)
                /\ ns[ic].radius = RAdd(ns[ip].radius, R(2158, 10))

(***************************************************************************)
(* C10: root.json is written only after the branch payload of every        *)
(* top-level child has been written, in source order of the children; so   *)
(* whenever root.json exists, every childUrl in it names a branch file     *)
(* already written by the run.                                             *)
(***************************************************************************)
C10_RootWrittenLast ==
    \A k \in 1..Len(written) :
        IsRootWrite(written[k]) =>
            /\ k = Len(children) + 1
            /\ \A i \in 1..Len(children) :
                   /\ ~IsRootWrite(written[i])
                   /\ written[i].payload.nodes[1].pos = <<i>>
            /\ Len(written[k].payload.children) = Len(children)
            /\ \A i \in 1..Len(written[k].payload.children) :
                   \E j \in 1..(k - 1) :
                       /\ DataPrefix \o written[j].file
                              = written[k].payload.children[i].childUrl
                       /\ written[j].payload.rootId = written[k].payload.children[i].id

C10_Witness ==
    /\ pc = "done"
    /\ Len(written) >= 4
    /\ \E i \in 1..Len(children) : ChildrenOf(children[i]) # <<>>

====
